---- MODULE Spec2Model ----
(***************************************************************************)
(* Filter-and-aggregate pipeline of the cybersecurity dashboard            *)
(* (src/app.py).  The script is re-executed from top to bottom on every    *)
(* widget interaction: it reads the cached dataset, reads the five         *)
(* multiselect widgets, builds filtered_df by boolean indexing and then    *)
(* computes the KPI scalars, the frequency tables and the grouped          *)
(* summaries.  One action of the model is one such execution.              *)
(*                                                                         *)
(* A DataFrame is a sequence of rows; a row is a function from column      *)
(* names to values and carries its index label under the key "index"       *)
(* (read_csv gives the labels 0..n-1 and boolean indexing keeps them).     *)
(* Numeric columns hold integer values, for which float64 arithmetic is    *)
(* exact.  Cells are never missing.  load_data() has returned a non-empty  *)
(* frame: on an empty one the script stops before the filters.  The        *)
(* choropleth summary and the rendering of the charts are not modelled.    *)
(*                                                                         *)
(* value_counts() and sort_values() sort with pandas' default              *)
(* kind="quicksort", which is not stable: where equal keys end up depends  *)
(* on the numpy build, and on one build it is a fixed function of the      *)
(* array that is sorted.  quicksort holds what is known of the build of    *)
(* the session: the order it has returned for each array with equal values *)
(* sorted so far.  An array met for the first time may come back in any    *)
(* order that is sorted by value; the same array comes back in the same    *)
(* order from then on.                                                     *)
(*                                                                         *)
(* noted is a history variable: what an observer of the page has written   *)
(* down at one execution, to compare with what later executions show.      *)
(***************************************************************************)
EXTENDS Integers, Sequences, FiniteSets, TLC

VARIABLES
    df,                     \* the dataset returned by load_data()
    quicksort,              \* the orders this build's argsort has returned
    noted,                  \* one execution as written down by an observer
    selected_years,
    selected_countries,
    selected_attack_types,
    selected_industries,
    selected_sources,
    filtered_df,
    total_incidents,
    total_loss,
    total_users,
    avg_resolution,
    countries_affected,
    attack_counts,
    industry_counts,
    yearly,
    source_counts,
    country_loss,
    vuln_counts,
    defense_counts

vars == << df, quicksort, noted, selected_years, selected_countries,
           selected_attack_types, selected_industries, selected_sources,
           filtered_df, total_incidents, total_loss, total_users,
           avg_resolution, countries_affected, attack_counts,
           industry_counts, yearly, source_counts, country_loss,
           vuln_counts, defense_counts >>

(***************************************************************************)
(* Bounds and program constants                                            *)
(***************************************************************************)
\* longest dataset drawn by Init
MaxRows == 3

\* most options a multiselect of the model has deselected, unless all are
MaxDeselected == 1

\* a wide dataset of the model has up to TopN + MaxSurplus countries
MaxSurplus == 2

\* .tail(10) of country_loss
TopN == 10

(***************************************************************************)
(* Columns and sample rows                                                 *)
(***************************************************************************)
Columns ==
    { "Year", "Country", "Attack Type", "Target Industry", "Attack Source",
      "Security Vulnerability Type", "Defense Mechanism Used",
      "Financial Loss (in Million $)", "Number of Affected Users",
      "Incident Resolution Time (in Hours)" }

\* Python's order on the country names used below (str.__lt__)
CountryOrder ==
    << "Australia", "Brazil", "Canada", "China", "France", "Germany",
       "India", "Italy", "Japan", "Russia", "Spain", "UK", "USA" >>

\* the position of a country name in that order
CountryRank ==
    [ c \in { CountryOrder[i] : i \in 1..Len(CountryOrder) } |->
        CHOOSE i \in 1..Len(CountryOrder) : CountryOrder[i] = c ]

Row(y, c, a, i, s, v, d, loss, users, hours) ==
    [ col \in Columns |->
        CASE col = "Year" -> y
          [] col = "Country" -> c
          [] col = "Attack Type" -> a
          [] col = "Target Industry" -> i
          [] col = "Attack Source" -> s
          [] col = "Security Vulnerability Type" -> v
          [] col = "Defense Mechanism Used" -> d
          [] col = "Financial Loss (in Million $)" -> loss
          [] col = "Number of Affected Users" -> users
          [] col = "Incident Resolution Time (in Hours)" -> hours ]

\* the rows a small CSV file of the model is made of
SampleRows ==
    { Row(2020, "USA", "DDoS", "IT", "Hacker Group", "Zero-day", "Firewall", 4, 100, 10),
      Row(2021, "UK", "Phishing", "Banking", "Insider", "Weak Passwords", "VPN", 10, 300, 45),
      Row(2020, "UK", "DDoS", "IT", "Insider", "Zero-day", "Firewall", 7, 200, 20) }

\* three rows that differ in every categorical column, two of equal loss
TieRows ==
    { Row(2020, "USA", "DDoS", "IT", "Hacker Group", "Zero-day", "Firewall", 5, 100, 10),
      Row(2021, "UK", "Phishing", "Banking", "Insider", "Weak Passwords", "VPN", 5, 300, 45),
      Row(2020, "India", "Malware", "Retail", "Nation-state", "Social Engineering", "Antivirus", 7, 200, 20) }

\* pd.read_csv: the rows of the file in file order, labelled 0..n-1
read_csv(rows) ==
    [ k \in 1..Len(rows) |-> rows[k] @@ ("index" :> (k - 1)) ]

RECURSIVE SeqsUpTo(_, _)
SeqsUpTo(S, n) ==
    IF n = 0 THEN { << >> }
    ELSE LET shorter == SeqsUpTo(S, n - 1)
         IN shorter \cup { Append(q, x) : q \in { p \in shorter : Len(p) = n - 1 }, x \in S }

CsvFiles == { f \in SeqsUpTo(SampleRows, MaxRows) : Len(f) > 0 }

\* the CSV files in which each of the three rows occurs once, the row of the
\* later year between the other two
TieFiles ==
    { f \in SeqsUpTo(TieRows, 3) :
        /\ Len(f) = 3
        /\ \A i, j \in 1..3 : i # j => f[i] # f[j]
        /\ f[2]["Year"] = 2021 }

\* the rows of a wide CSV file: one row per country, in an order that is not
\* the alphabetical one, with equal losses among the smallest and equal
\* counts among the values of a categorical column
WideRows ==
    << Row(2020, "Japan", "DDoS", "IT", "Insider", "Weak Passwords", "VPN", 7, 100, 10),
       Row(2020, "Brazil", "Phishing", "Banking", "Hacker Group", "Zero-day", "Firewall", 9, 200, 20),
       Row(2020, "USA", "Phishing", "Banking", "Hacker Group", "Zero-day", "Firewall", 2, 300, 30),
       Row(2020, "France", "Malware", "Retail", "Nation-state", "Social Engineering", "Antivirus", 10, 400, 40),
       Row(2020, "Australia", "Phishing", "Banking", "Hacker Group", "Zero-day", "Firewall", 2, 500, 50),
       Row(2020, "India", "DDoS", "IT", "Insider", "Weak Passwords", "VPN", 4, 600, 60),
       Row(2020, "Germany", "Phishing", "Banking", "Hacker Group", "Zero-day", "Firewall", 11, 700, 70),
       Row(2020, "China", "Malware", "Retail", "Nation-state", "Social Engineering", "Antivirus", 3, 800, 15),
       Row(2020, "UK", "Phishing", "Banking", "Hacker Group", "Zero-day", "Firewall", 5, 900, 25),
       Row(2020, "Russia", "DDoS", "IT", "Insider", "Weak Passwords", "VPN", 6, 150, 35),
       Row(2020, "Canada", "Malware", "Retail", "Nation-state", "Social Engineering", "Antivirus", 8, 250, 45),
       Row(2021, "Italy", "Phishing", "Banking", "Hacker Group", "Zero-day", "Firewall", 12, 350, 55),
       Row(2020, "Spain", "Malware", "Retail", "Nation-state", "Social Engineering", "Antivirus", 1, 450, 65) >>

\* further rows, of another year, for countries a wide file already has
ExtraRows ==
    { Row(2021, "Australia", "DDoS", "IT", "Insider", "Weak Passwords", "VPN", 12, 550, 12),
      Row(2021, "USA", "Malware", "Retail", "Nation-state", "Social Engineering", "Antivirus", 11, 650, 18),
      Row(2021, "Japan", "Phishing", "Banking", "Hacker Group", "Zero-day", "Firewall", 1, 50, 5) }

WideExtras == SeqsUpTo(ExtraRows, 2)

WideFiles ==
    { SubSeq(WideRows, 1, n) \o extra :
        n \in (TopN + 1)..(TopN + MaxSurplus), extra \in WideExtras }

(***************************************************************************)
(* pandas operations used by the script                                    *)
(***************************************************************************)
\* isin that reads an empty list of values as "no restriction"
isin_or_all(frame, col, values) ==
    [ k \in 1..Len(frame) |-> values = {} \/ frame[k][col] \in values ]

\* Series.isin(values): the boolean mask of the rows whose cell is in values
isin(frame, col, values) ==
    [ k \in 1..Len(frame) |-> frame[k][col] \in values ]

\* mask | mask
MaskOr(m1, m2) ==
    [ k \in DOMAIN m1 |-> m1[k] \/ m2[k] ]

\* mask & mask
MaskAnd(m1, m2) ==
    [ k \in DOMAIN m1 |-> m1[k] /\ m2[k] ]

\* frame[mask]: the rows at the True positions, in frame order, labels kept
RECURSIVE BoolIndexFrom(_, _, _)
BoolIndexFrom(frame, mask, k) ==
    IF k > Len(frame) THEN << >>
    ELSE (IF mask[k] THEN << frame[k] >> ELSE << >>) \o BoolIndexFrom(frame, mask, k + 1)

\* the selected rows, last one first
BoolIndexNewestFirst(frame, mask) ==
    LET kept == BoolIndexFrom(frame, mask, 1)
    IN [ k \in 1..Len(kept) |-> kept[Len(kept) + 1 - k] ]

\* the selected rows after the first position
BoolIndexSkipFirst(frame, mask) == BoolIndexFrom(frame, mask, 2)

BoolIndex(frame, mask) == BoolIndexFrom(frame, mask, 1)

\* Series.unique(): the distinct cells in order of first appearance
RECURSIVE UniqueFrom(_, _, _, _)
UniqueFrom(frame, col, k, seen) ==
    IF k > Len(frame) THEN seen
    ELSE IF \E j \in 1..Len(seen) : seen[j] = frame[k][col]
         THEN UniqueFrom(frame, col, k + 1, seen)
         ELSE UniqueFrom(frame, col, k + 1, Append(seen, frame[k][col]))

unique(frame, col) == UniqueFrom(frame, col, 1, << >>)

\* the options of a multiselect: sorted(df[col].unique()), as a set (the
\* order of the options only matters for display)
options(frame, col) ==
    LET u == unique(frame, col) IN { u[j] : j \in 1..Len(u) }

\* Series.sum(): 0 on an empty column
RECURSIVE SumFrom(_, _, _)
SumFrom(frame, col, k) ==
    IF k > Len(frame) THEN 0 ELSE frame[k][col] + SumFrom(frame, col, k + 1)

sum(frame, col) == SumFrom(frame, col, 1)

RECURSIVE Gcd(_, _)
Gcd(a, b) == IF b = 0 THEN a ELSE Gcd(b, a % b)

\* float('nan'), written as the quotient 0/0 it comes from
NaN == << 0, 0 >>

\* a mean that reports 0 for an empty column
mean_or_zero(frame, col) ==
    IF Len(frame) = 0 THEN << 0, 1 >>
    ELSE LET s == sum(frame, col)
             g == Gcd(s, Len(frame))
         IN << s \div g, Len(frame) \div g >>

\* Series.mean(): sum / count as a fraction in lowest terms; NaN when the
\* column is empty (0.0 / 0 in pandas' nanmean yields nan, nothing is raised)
mean(frame, col) ==
    IF Len(frame) = 0 THEN NaN
    ELSE LET s == sum(frame, col)
             g == Gcd(s, Len(frame))
         IN << s \div g, Len(frame) \div g >>

\* Series.nunique()
nunique(frame, col) == Len(unique(frame, col))

\* the rows of frame whose cell in col is key
Group(frame, col, key) == SelectSeq(frame, LAMBDA row : row[col] = key)

\* Python's < on the cells of a key column: integers for Year, strings for
\* Country
Less(col, a, b) ==
    IF col = "Year" THEN a < b ELSE CountryRank[a] < CountryRank[b]

\* groupby(col, sort=False): the group keys in order of first appearance
GroupKeysUnsorted(frame, col) == unique(frame, col)

\* sorted(keys)
RECURSIVE Ascending(_, _)
Ascending(col, keys) ==
    IF keys = {} THEN << >>
    ELSE LET least == CHOOSE x \in keys : \A y \in keys : ~Less(col, y, x)
         IN << least >> \o Ascending(col, keys \ { least })

\* groupby(col) with sort=True: the group keys in ascending order
GroupKeys(frame, col) == Ascending(col, options(frame, col))

\* Series.sort_values(ascending=...), kind="quicksort".  A series is a
\* sequence of [key, value]; argsort is given the array of its values.
values_of(series) == [ r \in 1..Len(series) |-> series[r].value ]

\* the result is ordered by value: the entry at i has to come before the
\* entry at j.  quicksort is not stable, entries of equal value come in an
\* order the build decides.
Precedes(array, i, j, ascending) ==
    IF ascending THEN array[i] < array[j]
                 ELSE array[i] > array[j]

\* the index orders an argsort may return for the positions in left
RECURSIVE Argsorts(_, _, _)
Argsorts(array, left, ascending) ==
    IF left = {} THEN { << >> }
    ELSE LET firsts == { i \in left : \A j \in left : ~Precedes(array, j, i, ascending) }
         IN UNION { { << i >> \o rest : rest \in Argsorts(array, left \ { i }, ascending) } :
                    i \in firsts }

\* the index orders the argsort of a build may return, build being the
\* orders the build is known to return: the known one, or any
argsort(array, ascending, build) ==
    IF << array, ascending >> \in DOMAIN build
    THEN { build[<< array, ascending >>] }
    ELSE Argsorts(array, 1..Len(array), ascending)

\* the results sort_values may return on a build
sort_values(series, ascending, build) ==
    { [ r \in 1..Len(series) |-> series[indexer[r]] ] :
        indexer \in argsort(values_of(series), ascending, build) }

\* Series.value_counts(sort=False): the hashtable yields the distinct cells
\* in order of first appearance with their counts
counts(frame, col) ==
    LET keys == unique(frame, col)
    IN [ j \in 1..Len(keys) |->
           [ key |-> keys[j],
             value |-> Cardinality({ k \in 1..Len(frame) : frame[k][col] = keys[j] }) ] ]

\* value_counts that does not count the last row of the frame
value_counts_short(frame, col, build) ==
    LET keys == unique(frame, col)
        counted == [ j \in 1..Len(keys) |->
                       [ key |-> keys[j],
                         value |-> Cardinality({ k \in 1..(Len(frame) - 1) : frame[k][col] = keys[j] }) ] ]
    IN sort_values(counted, FALSE, build)

\* value_counts(sort=False)
value_counts_unsorted(frame, col, build) ==
    { counts(frame, col) }

\* Series.value_counts(): the counts, then sort_values(ascending=False); the
\* results it may return on a build
value_counts(frame, col, build) ==
    sort_values(counts(frame, col), FALSE, build)

\* .reset_index() and the assignment to .columns
reset_index(series, keycol, valcol) ==
    [ r \in 1..Len(series) |-> (keycol :> series[r].key) @@ (valcol :> series[r].value) ]

\* Series.tail(n)
tail(series, n) ==
    IF Len(series) <= n THEN series
    ELSE SubSeq(series, Len(series) - n + 1, Len(series))

(***************************************************************************)
(* The script                                                              *)
(***************************************************************************)
\* the "Apply filters" statement
apply_filters(frame, years, countries, attack_types, industries, sources) ==
    BoolIndex(frame,
        MaskAnd(MaskAnd(MaskAnd(MaskAnd(
            isin(frame, "Year", years),
            isin(frame, "Country", countries)),
            isin(frame, "Attack Type", attack_types)),
            isin(frame, "Target Industry", industries)),
            isin(frame, "Attack Source", sources)))

\* filtered_df.groupby("Year").agg(Incidents, Financial_Loss,
\* Affected_Users).reset_index()
yearly_agg(view) ==
    LET keys == GroupKeys(view, "Year")
    IN [ r \in 1..Len(keys) |->
           LET g == Group(view, "Year", keys[r])
           IN [ Year |-> keys[r],
                Incidents |-> Len(g),
                Financial_Loss |-> sum(g, "Financial Loss (in Million $)"),
                Affected_Users |-> sum(g, "Number of Affected Users") ] ]

\* filtered_df.groupby("Country")["Financial Loss (in Million $)"].sum()
country_sums(view) ==
    LET keys == GroupKeys(view, "Country")
    IN [ r \in 1..Len(keys) |->
           [ key |-> keys[r],
             value |-> sum(Group(view, "Country", keys[r]), "Financial Loss (in Million $)") ] ]

\* Series.head(n)
head(series, n) ==
    IF Len(series) <= n THEN series ELSE SubSeq(series, 1, n)

\* ... .sort_values(ascending=True).head(10)
bottom_countries(view, build) ==
    { head(sorted, TopN) : sorted \in sort_values(country_sums(view), TRUE, build) }

\* ... .sort_values(ascending=True).tail(10): the results it may return on a
\* build
top_countries(view, build) ==
    { tail(sorted, TopN) : sorted \in sort_values(country_sums(view), TRUE, build) }

\* the arrays the six sorts of one execution hand to argsort, each with its
\* direction
sorted_arrays(view) ==
    { << values_of(counts(view, col)), FALSE >> :
        col \in { "Attack Type", "Target Industry", "Attack Source",
                  "Security Vulnerability Type", "Defense Mechanism Used" } }
    \cup { << values_of(country_sums(view)), TRUE >> }

\* a build of which nothing is kept from one execution to the next
builds_anew(build, arrays) ==
    LET new == { a \in arrays : Cardinality(Argsorts(a[1], 1..Len(a[1]), a[2])) > 1 }
        orders == UNION { Argsorts(a[1], 1..Len(a[1]), a[2]) : a \in new }
    IN { f \in [ new -> orders ] :
           \A a \in new : f[a] \in Argsorts(a[1], 1..Len(a[1]), a[2]) }

\* what is known of a build after it has sorted the given arrays: for each
\* array with equal values that is new to it, one of the orders an argsort
\* may return is added (an array without equal values has one order only)
builds_after(build, arrays) ==
    LET new == { a \in arrays \ DOMAIN build :
                   Cardinality(Argsorts(a[1], 1..Len(a[1]), a[2])) > 1 }
        orders == UNION { Argsorts(a[1], 1..Len(a[1]), a[2]) : a \in new }
    IN { [ a \in DOMAIN build \cup new |-> IF a \in new THEN more[a] ELSE build[a] ] :
           more \in { f \in [ new -> orders ] :
                        \A a \in new : f[a] \in Argsorts(a[1], 1..Len(a[1]), a[2]) } }

\* everything one execution of the script computes from the dataset and the
\* values of the five multiselects on a build: the set of results it may end
\* with, each with what is known of the build afterwards
Script(frame, years, countries, attack_types, industries, sources, build) ==
    LET view == apply_filters(frame, years, countries, attack_types, industries, sources)
        scalars ==
            [ filtered_df |-> view,
              total_incidents |-> Len(view),
              total_loss |-> sum(view, "Financial Loss (in Million $)"),
              total_users |-> sum(view, "Number of Affected Users"),
              avg_resolution |-> mean(view, "Incident Resolution Time (in Hours)"),
              countries_affected |-> nunique(view, "Country"),
              yearly |-> yearly_agg(view) ]
    IN UNION {
         { scalars @@
           [ quicksort |-> after,
             attack_counts |-> reset_index(ac, "Attack Type", "Count"),
             industry_counts |-> reset_index(ic, "Target Industry", "Count"),
             source_counts |-> reset_index(sc, "Attack Source", "Count"),
             country_loss |-> cl,
             vuln_counts |-> reset_index(vc, "Vulnerability", "Count"),
             defense_counts |-> reset_index(dc, "Defense Mechanism", "Count") ] :
           ac \in value_counts(view, "Attack Type", after),
           ic \in value_counts(view, "Target Industry", after),
           sc \in value_counts(view, "Attack Source", after),
           cl \in top_countries(view, after),
           vc \in value_counts(view, "Security Vulnerability Type", after),
           dc \in value_counts(view, "Defense Mechanism Used", after) } :
         after \in builds_after(build, sorted_arrays(view)) }

\* the values a multiselect can hand to the next execution after one
\* interaction: one option added, one removed, or all cleared.  The model
\* explores the values that leave out at most MaxDeselected options, and the
\* empty one.
multiselect(opts, current) ==
    { sel \in ({ current \cup { v } : v \in opts \ current }
                 \cup { current \ { v } : v \in current }
                 \cup { {} }) \ { current } :
        sel = {} \/ Cardinality(opts \ sel) <= MaxDeselected }

\* the state after the first execution: every multiselect at its default,
\* nothing known of the build before, nothing noted
Loaded(file) ==
    LET frame == read_csv(file)
    IN \E out \in Script(frame,
                         options(frame, "Year"), options(frame, "Country"),
                         options(frame, "Attack Type"), options(frame, "Target Industry"),
                         options(frame, "Attack Source"), << >>) :
       /\ df = frame
       /\ noted = {}
       /\ selected_years = options(frame, "Year")
       /\ selected_countries = options(frame, "Country")
       /\ selected_attack_types = options(frame, "Attack Type")
       /\ selected_industries = options(frame, "Target Industry")
       /\ selected_sources = options(frame, "Attack Source")
       /\ quicksort = out.quicksort
       /\ filtered_df = out.filtered_df
       /\ total_incidents = out.total_incidents
       /\ total_loss = out.total_loss
       /\ total_users = out.total_users
       /\ avg_resolution = out.avg_resolution
       /\ countries_affected = out.countries_affected
       /\ attack_counts = out.attack_counts
       /\ industry_counts = out.industry_counts
       /\ yearly = out.yearly
       /\ source_counts = out.source_counts
       /\ country_loss = out.country_loss
       /\ vuln_counts = out.vuln_counts
       /\ defense_counts = out.defense_counts

Init ==
    \E file \in CsvFiles : Loaded(file)

\* a note stays as it is, except that it records that an execution with
\* another selection than the noted one has taken place since
noted_after(years, countries, attack_types, industries, sources) ==
    { IF n.selection = << years, countries, attack_types, industries, sources >>
      THEN n ELSE [ n EXCEPT !.left = TRUE ] : n \in noted }

\* one execution of the script with the given widget values: load_data()
\* returns the cached dataset, everything else is computed anew
Rerun(years, countries, attack_types, industries, sources) ==
    \E out \in Script(df, years, countries, attack_types, industries, sources, quicksort) :
       /\ df' = df
       /\ noted' = noted_after(years, countries, attack_types, industries, sources)
       /\ selected_years' = years
       /\ selected_countries' = countries
       /\ selected_attack_types' = attack_types
       /\ selected_industries' = industries
       /\ selected_sources' = sources
       /\ quicksort' = out.quicksort
       /\ filtered_df' = out.filtered_df
       /\ total_incidents' = out.total_incidents
       /\ total_loss' = out.total_loss
       /\ total_users' = out.total_users
       /\ avg_resolution' = out.avg_resolution
       /\ countries_affected' = out.countries_affected
       /\ attack_counts' = out.attack_counts
       /\ industry_counts' = out.industry_counts
       /\ yearly' = out.yearly
       /\ source_counts' = out.source_counts
       /\ country_loss' = out.country_loss
       /\ vuln_counts' = out.vuln_counts
       /\ defense_counts' = out.defense_counts

ChangeYears ==
    \E sel \in multiselect(options(df, "Year"), selected_years) :
        Rerun(sel, selected_countries, selected_attack_types, selected_industries, selected_sources)

ChangeCountries ==
    \E sel \in multiselect(options(df, "Country"), selected_countries) :
        Rerun(selected_years, sel, selected_attack_types, selected_industries, selected_sources)

ChangeAttackTypes ==
    \E sel \in multiselect(options(df, "Attack Type"), selected_attack_types) :
        Rerun(selected_years, selected_countries, sel, selected_industries, selected_sources)

ChangeIndustries ==
    \E sel \in multiselect(options(df, "Target Industry"), selected_industries) :
        Rerun(selected_years, selected_countries, selected_attack_types, sel, selected_sources)

ChangeSources ==
    \E sel \in multiselect(options(df, "Attack Source"), selected_sources) :
        Rerun(selected_years, selected_countries, selected_attack_types, selected_industries, sel)

Next ==
    \/ ChangeYears
    \/ ChangeCountries
    \/ ChangeAttackTypes
    \/ ChangeIndustries
    \/ ChangeSources

Spec == Init /\ [][Next]_vars

\* the script on a wide dataset, the user working the Year widget
InitWide ==
    \E file \in WideFiles : Loaded(file)

NextWide == ChangeYears

SpecWide == InitWide /\ [][NextWide]_vars

\* the current values of the five multiselects
Selection ==
    << selected_years, selected_countries, selected_attack_types,
       selected_industries, selected_sources >>

\* what one execution leaves on the page
Outputs ==
    [ filtered_df |-> filtered_df,
      total_incidents |-> total_incidents,
      total_loss |-> total_loss,
      total_users |-> total_users,
      avg_resolution |-> avg_resolution,
      countries_affected |-> countries_affected,
      attack_counts |-> attack_counts,
      industry_counts |-> industry_counts,
      yearly |-> yearly,
      source_counts |-> source_counts,
      country_loss |-> country_loss,
      vuln_counts |-> vuln_counts,
      defense_counts |-> defense_counts ]

\* the observer writes down the selection and what the page shows, once
Note ==
    /\ noted = {}
    /\ noted' = { [ selection |-> Selection, outputs |-> Outputs, left |-> FALSE ] }
    /\ UNCHANGED << df, quicksort, selected_years, selected_countries,
                    selected_attack_types, selected_industries, selected_sources,
                    filtered_df, total_incidents, total_loss, total_users,
                    avg_resolution, countries_affected, attack_counts,
                    industry_counts, yearly, source_counts, country_loss,
                    vuln_counts, defense_counts >>

\* a session with an observer on a dataset of rows that differ in every
\* categorical column, the user working the Year and Country widgets
InitNoted ==
    \E file \in TieFiles : Loaded(file)

NextNoted ==
    \/ ChangeYears
    \/ ChangeCountries
    \/ Note

SpecNoted == InitNoted /\ [][NextNoted]_vars

(***************************************************************************)
(* Notions the properties are stated with                                  *)
(***************************************************************************)
\* the positions of the dataset
Positions == 1..Len(df)

\* the row satisfies the filter predicate under the current selection
Matches(row) ==
    /\ row["Year"] \in selected_years
    /\ row["Country"] \in selected_countries
    /\ row["Attack Type"] \in selected_attack_types
    /\ row["Target Industry"] \in selected_industries
    /\ row["Attack Source"] \in selected_sources

\* the row is one of the rows of the filtered view
InView(row) == \E j \in 1..Len(filtered_df) : filtered_df[j] = row

\* the values observed in a column of the dataset
Observed(col) == { df[k][col] : k \in Positions }

\* the values of a column in the filtered view
ViewValues(col) == { filtered_df[j][col] : j \in 1..Len(filtered_df) }

\* the positions of the filtered view whose cell in col is v
ViewRowsWith(col, v) == { j \in 1..Len(filtered_df) : filtered_df[j][col] = v }

\* every multiselect holds all its options
AllSelected ==
    /\ selected_years = Observed("Year")
    /\ selected_countries = Observed("Country")
    /\ selected_attack_types = Observed("Attack Type")
    /\ selected_industries = Observed("Target Industry")
    /\ selected_sources = Observed("Attack Source")

\* the sum of the values of a function with a finite domain
RECURSIVE SumOver(_)
SumOver(f) ==
    IF DOMAIN f = {} THEN 0
    ELSE LET x == CHOOSE y \in DOMAIN f : TRUE
         IN f[x] + SumOver([ y \in DOMAIN f \ { x } |-> f[y] ])

(***************************************************************************)
(* Filter Engine                                                           *)
(***************************************************************************)
\* C1: a row of the dataset is in the filtered view if and only if its Year,
\* Country, Attack Type, Target Industry and Attack Source each belong to the
\* corresponding selection, and "Total Incidents" is the number of rows of
\* the dataset that satisfy this predicate.
C1_FilterIsConjunctionOfMemberships ==
    /\ \A k \in Positions : InView(df[k]) <=> Matches(df[k])
    /\ total_incidents = Cardinality({ k \in Positions : Matches(df[k]) })
    /\ total_incidents = Len(filtered_df)

\* a row is left out because of one dimension alone while another row passes
C1_Witness ==
    /\ \E k \in Positions :
          /\ ~InView(df[k])
          /\ df[k]["Year"] \in selected_years
          /\ df[k]["Country"] \notin selected_countries
          /\ df[k]["Attack Type"] \in selected_attack_types
          /\ df[k]["Target Industry"] \in selected_industries
          /\ df[k]["Attack Source"] \in selected_sources
    /\ total_incidents = 2

\* C2: the filtered view is a subsequence of the dataset: each of its rows is
\* the dataset row with the same index label, and the labels increase
\* strictly along the view (no row twice, dataset order kept).
C2_ViewIsSubsequence ==
    /\ \A j \in 1..Len(filtered_df) :
          /\ filtered_df[j]["index"] + 1 \in Positions
          /\ filtered_df[j] = df[filtered_df[j]["index"] + 1]
    /\ \A i, j \in 1..Len(filtered_df) :
          i < j => filtered_df[i]["index"] < filtered_df[j]["index"]

\* a view of two rows that skips a dataset row lying between them
C2_Witness ==
    /\ Len(filtered_df) = 2
    /\ filtered_df[1]["index"] = 0
    /\ filtered_df[2]["index"] = 2

\* C3: with every selection at its default, the full set of values observed
\* in the dataset, the filtered view is the whole dataset in its order.
C3_DefaultSelectionKeepsAll ==
    AllSelected => filtered_df = df

\* the default selection on a dataset of several rows with different values
C3_Witness ==
    /\ AllSelected
    /\ Len(df) = 3
    /\ Cardinality(Observed("Year")) = 2
    /\ filtered_df = df

\* C4: if any one of the five selections is empty, the filtered view is
\* empty, whatever the other four and the dataset are.
C4_EmptySelectionGivesEmptyView ==
    ( \/ selected_years = {}
      \/ selected_countries = {}
      \/ selected_attack_types = {}
      \/ selected_industries = {}
      \/ selected_sources = {} )
    => (filtered_df = << >> /\ total_incidents = 0)

\* one selection is empty while the other four hold all their options
C4_Witness ==
    /\ selected_industries = {}
    /\ selected_years = Observed("Year")
    /\ selected_countries = Observed("Country")
    /\ selected_attack_types = Observed("Attack Type")
    /\ selected_sources = Observed("Attack Source")
    /\ Len(df) = 3
    /\ filtered_df = << >>

(***************************************************************************)
(* Aggregation Engine                                                      *)
(***************************************************************************)
\* C5: on an empty filtered view the row count, the sum of financial loss,
\* the sum of affected users and the distinct country count are 0, every
\* frequency table and every grouped summary is empty, and the mean
\* resolution time is NaN, a value no mean of a non-empty view takes.
C5_EmptyViewAggregates ==
    /\ filtered_df = << >> =>
          /\ total_incidents = 0
          /\ total_loss = 0
          /\ total_users = 0
          /\ countries_affected = 0
          /\ attack_counts = << >>
          /\ industry_counts = << >>
          /\ source_counts = << >>
          /\ vuln_counts = << >>
          /\ defense_counts = << >>
          /\ yearly = << >>
          /\ country_loss = << >>
          /\ avg_resolution = NaN
    /\ filtered_df # << >> => avg_resolution # NaN

\* no row passes although no selection is empty
C5_Witness ==
    /\ filtered_df = << >>
    /\ Len(df) = 3
    /\ selected_years # {}
    /\ selected_countries # {}
    /\ selected_attack_types # {}
    /\ selected_industries # {}
    /\ selected_sources # {}

\* C6: after any sequence of selection changes the view and the aggregates
\* depend only on the dataset and the current selection: an execution that
\* ends in the selection of an earlier, noted execution shows the view and
\* the aggregates noted then, whatever was selected in between, and no
\* execution changes the dataset.
C6_SameSelectionSameOutputs ==
    /\ [](\A n \in noted : n.selection = Selection => n.outputs = Outputs)
    /\ [][df' = df]_vars

\* the selection of the noted execution is selected again after an execution
\* with another selection, on a view that has equal counts in a frequency
\* table and is a part of the dataset
C6_Witness ==
    /\ \E n \in noted : n.left /\ n.selection = Selection
    /\ Len(vuln_counts) >= 2
    /\ vuln_counts[1]["Count"] = vuln_counts[2]["Count"]
    /\ Len(filtered_df) \in 2..(Len(df) - 1)

\* the counts of a frequency table sum to the row count of the view and the
\* table has one entry per distinct value of the column in the view
TableCovers(table, keycol, col) ==
    /\ SumOver([ r \in 1..Len(table) |-> table[r]["Count"] ]) = Len(filtered_df)
    /\ { table[r][keycol] : r \in 1..Len(table) } = ViewValues(col)
    /\ Len(table) = Cardinality(ViewValues(col))

\* C7: for each of the five frequency tables the counts sum to the row count
\* of the view and there is one entry per distinct value of the field.
C7_FrequencyTablesCoverView ==
    /\ TableCovers(attack_counts, "Attack Type", "Attack Type")
    /\ TableCovers(industry_counts, "Target Industry", "Target Industry")
    /\ TableCovers(source_counts, "Attack Source", "Attack Source")
    /\ TableCovers(vuln_counts, "Vulnerability", "Security Vulnerability Type")
    /\ TableCovers(defense_counts, "Defense Mechanism", "Defense Mechanism Used")

\* a view of three rows with two values in a column, one of them twice
C7_Witness ==
    /\ Len(filtered_df) = 3
    /\ Len(defense_counts) = 2
    /\ defense_counts[1]["Count"] = 2
    /\ defense_counts[2]["Count"] = 1

\* C10: the by-year summary has one record per year of the view, in strictly
\* ascending order of year; a record holds the number of view rows of its
\* year and the sums of their financial loss and affected users; Incidents
\* adds up to the row count and Financial_Loss to the total financial loss.
C10_YearlySummary ==
    /\ Len(yearly) = Cardinality(ViewValues("Year"))
    /\ \A r, t \in 1..Len(yearly) : r < t => yearly[r].Year < yearly[t].Year
    /\ \A r \in 1..Len(yearly) :
          LET rows == ViewRowsWith("Year", yearly[r].Year)
          IN /\ yearly[r].Year \in ViewValues("Year")
             /\ yearly[r].Incidents = Cardinality(rows)
             /\ yearly[r].Financial_Loss =
                    SumOver([ j \in rows |-> filtered_df[j]["Financial Loss (in Million $)"] ])
             /\ yearly[r].Affected_Users =
                    SumOver([ j \in rows |-> filtered_df[j]["Number of Affected Users"] ])
    /\ SumOver([ r \in 1..Len(yearly) |-> yearly[r].Incidents ]) = Len(filtered_df)
    /\ SumOver([ r \in 1..Len(yearly) |-> yearly[r].Financial_Loss ]) = total_loss

\* the later year comes first in the view and the earlier year has two rows
C10_Witness ==
    /\ Len(filtered_df) = 3
    /\ filtered_df[1]["Year"] > filtered_df[2]["Year"]
    /\ Len(yearly) = 2
    /\ yearly[1].Incidents = 2

\* the summed financial loss of a country over the view
ViewLoss(country) ==
    SumOver([ j \in ViewRowsWith("Country", country) |->
                filtered_df[j]["Financial Loss (in Million $)"] ])

\* country_loss holds at most n countries of the view with their summed
\* losses; it is ascending by summed loss, its last entry has the largest
\* summed loss of the view, and no country left out has a larger summed loss
\* than a country it holds
TopCountriesOfView(n) ==
    LET held == { country_loss[r].key : r \in 1..Len(country_loss) }
        all == ViewValues("Country")
        loss == [ c \in all |-> ViewLoss(c) ]
    IN /\ Len(country_loss) <= n
       /\ Cardinality(held) = Len(country_loss)
       /\ held \subseteq all
       /\ all # {} => held # {}
       /\ \A r \in 1..Len(country_loss) :
             country_loss[r].value = loss[country_loss[r].key]
       /\ \A r, t \in 1..Len(country_loss) :
             r < t => country_loss[r].value <= country_loss[t].value
       /\ \A c \in all :
             country_loss # << >> => loss[c] <= country_loss[Len(country_loss)].value
       /\ \A c \in all \ held : \A d \in held : loss[c] <= loss[d]

\* C8: country_loss has at most 15 entries, each a country of the view with
\* its summed financial loss, ascending by summed loss; its last entry is a
\* country of maximal summed loss in the view, and no country left out has a
\* larger summed loss than a country held.
C8_TopCountries == TopCountriesOfView(15)

\* after a change of the Year widget the view still has more than ten
\* countries, one of which is left out of country_loss
C8_Witness ==
    /\ selected_years # Observed("Year")
    /\ Cardinality(ViewValues("Country")) = TopN + 1
    /\ Len(country_loss) = TopN
    /\ \E c \in ViewValues("Country") :
          \A r \in 1..Len(country_loss) : country_loss[r].key # c

\* the first position of the view whose cell in col is v
FirstSeen(col, v) ==
    CHOOSE j \in ViewRowsWith(col, v) : \A i \in ViewRowsWith(col, v) : j <= i

\* the counts of a frequency table never increase from one entry to the next
Descending(table) ==
    \A r, t \in 1..Len(table) : r < t => table[r]["Count"] >= table[t]["Count"]

\* entries of a frequency table with equal counts are in the order in which
\* their values first appear in the view
TiesAsFirstSeen(table, keycol, col) ==
    \A r, t \in 1..Len(table) :
        (r < t /\ table[r]["Count"] = table[t]["Count"])
        => FirstSeen(col, table[r][keycol]) < FirstSeen(col, table[t][keycol])

\* C9 as stated: every frequency table is descending by count and entries
\* with equal counts appear in first-encountered order.
C9_AsStatedTiesFirstSeen ==
    /\ Descending(attack_counts) /\ TiesAsFirstSeen(attack_counts, "Attack Type", "Attack Type")
    /\ Descending(industry_counts)
    /\ TiesAsFirstSeen(industry_counts, "Target Industry", "Target Industry")
    /\ Descending(source_counts) /\ TiesAsFirstSeen(source_counts, "Attack Source", "Attack Source")
    /\ Descending(vuln_counts)
    /\ TiesAsFirstSeen(vuln_counts, "Vulnerability", "Security Vulnerability Type")
    /\ Descending(defense_counts)
    /\ TiesAsFirstSeen(defense_counts, "Defense Mechanism", "Defense Mechanism Used")

\* C9: every frequency table is ordered descending by count.
C9_TablesDescendingByCount ==
    /\ Descending(attack_counts)
    /\ Descending(industry_counts)
    /\ Descending(source_counts)
    /\ Descending(vuln_counts)
    /\ Descending(defense_counts)

\* a table whose most frequent value is not the first one met in the view and
\* which has two entries of equal count
C9_Witness ==
    /\ Len(vuln_counts) = 3
    /\ FirstSeen("Security Vulnerability Type", vuln_counts[1]["Vulnerability"]) > 1
    /\ vuln_counts[1]["Count"] > vuln_counts[2]["Count"]
    /\ vuln_counts[2]["Count"] = vuln_counts[3]["Count"]

====
